---- MODULE Spec2Model ----
(***************************************************************************)
(* Model of the Calendly-clone scheduling service: the availability engine *)
(* (calendly-clone-graphql/src/resolvers/availabilityResolvers.js) and the *)
(* appointment, schedule and event operations that write the tables the    *)
(* engine reads; the accounts and bearer tokens of the GraphQL server      *)
(* (login, logout, authMiddleware) and of the REST API (auth), and the     *)
(* schedule and event requests of both servers over the one database.      *)
(*                                                                         *)
(* Time.  An instant is a number of minutes on the server's local          *)
(* timeline; instant 0 is 00:00 of a Monday.  A JavaScript Date carries an *)
(* instant; toISOString followed by new Date gives the instant back, and   *)
(* the TEXT comparison of two timestamps in SQL is the comparison of their *)
(* instants.  Daylight-saving shifts are outside the model.                *)
(***************************************************************************)
EXTENDS Integers, Sequences, FiniteSets, TLC

VARIABLES
  events,        \* table events: row i is the event with id i
  schedules,     \* table schedules, in rowid order
  appointments,  \* table appointments: row i is the appointment with id i
  q,             \* the availableSlots request being served
  eng,           \* one direct invocation of calculateAvailableSlots
  users,         \* table users: the row of each user id
  tokens,        \* the tokens login has returned; token t is tokens[t]
  rsp,           \* the last request served with a bearer token, and its outcome
  signup         \* the createUser requests and the user rows they inserted

\* The state of accounts and sessions
accounts == <<users, tokens, rsp, signup>>

vars == <<events, schedules, appointments, q, eng, users, tokens, rsp,
          signup>>

-----------------------------------------------------------------------------
(* Bounds of the model *)

MaxEvents == 1
MaxSchedRows == 2
MaxAppts == 2
MaxDay == 1
MaxLogins == 3

-----------------------------------------------------------------------------
(* Dates *)

MinutesPerDay == 24 * 60

\* const slotDurationMinutes = 30
slotDurationMinutes == 30

\* const daysOfWeek = ['sunday', ..., 'saturday']
daysOfWeek ==
  <<"sunday", "monday", "tuesday", "wednesday", "thursday", "friday", "saturday">>

\* Number of the calendar day an instant falls on
DayOf(t) == t \div MinutesPerDay

\* Date.prototype.getDay: 0 is Sunday; day 0 of the timeline is a Monday
getDay(t) == (DayOf(t) + 1) % 7

\* Date.prototype.setHours(h, m, 0, 0): same calendar day, given wall-clock time
setHours(date, h, m) == (DayOf(date) * MinutesPerDay) + (h * 60) + m

\* currentDate.setDate(currentDate.getDate() + 1): next day, same time of day
NextDay(date) == date + MinutesPerDay

\* String.prototype.toLowerCase on the day names a schedule may carry
toLowerCase(s) ==
  CASE s = "Monday" -> "monday"
    [] s = "MONDAY" -> "monday"
    [] s = "Tuesday" -> "tuesday"
    [] s = "TUESDAY" -> "tuesday"
    [] OTHER -> s

\* startTime.split(':').map(Number) on the wall-clock texts a schedule may carry
SplitTime(text) ==
  CASE text = "09:00" -> <<9, 0>>
    [] text = "09:30" -> <<9, 30>>
    [] text = "10:00" -> <<10, 0>>
    [] text = "10:15" -> <<10, 15>>
    [] text = "11:00" -> <<11, 0>>
    [] text = "12:00" -> <<12, 0>>

-----------------------------------------------------------------------------
(* The availability engine *)

Min(a, b) == IF a <= b THEN a ELSE b

RECURSIVE SlotLoop(_, _)
\* The while loop of generateDayTimeSlots: one candidate every 30 minutes from
\* slotStart while it starts before availabilityEnd; a candidate is kept only
\* when it ends at or before availabilityEnd.
SlotLoop(slotStart, availabilityEnd) ==
  IF slotStart < availabilityEnd
    THEN LET slotEnd == slotStart + slotDurationMinutes
         IN  (IF slotEnd <= availabilityEnd
                THEN <<[start |-> slotStart, end |-> slotEnd, available |-> TRUE]>>
                ELSE <<>>)
             \o SlotLoop(slotStart + slotDurationMinutes, availabilityEnd)
    ELSE <<>>

RECURSIVE SlotLoopTruncating(_, _)
SlotLoopTruncating(slotStart, availabilityEnd) ==
  IF slotStart < availabilityEnd
    THEN <<[start |-> slotStart,
            end |-> Min(slotStart + slotDurationMinutes, availabilityEnd),
            available |-> TRUE]>>
         \o SlotLoopTruncating(slotStart + slotDurationMinutes, availabilityEnd)
    ELSE <<>>

RECURSIVE SlotLoopOverrunning(_, _)
SlotLoopOverrunning(slotStart, availabilityEnd) ==
  IF slotStart < availabilityEnd
    THEN <<[start |-> slotStart,
            end |-> slotStart + slotDurationMinutes,
            available |-> TRUE]>>
         \o SlotLoopOverrunning(slotStart + slotDurationMinutes, availabilityEnd)
    ELSE <<>>

RECURSIVE SlotLoopStrict(_, _)
SlotLoopStrict(slotStart, availabilityEnd) ==
  IF slotStart < availabilityEnd
    THEN LET slotEnd == slotStart + slotDurationMinutes
         IN  (IF slotEnd < availabilityEnd
                THEN <<[start |-> slotStart, end |-> slotEnd, available |-> TRUE]>>
                ELSE <<>>)
             \o SlotLoopStrict(slotStart + slotDurationMinutes, availabilityEnd)
    ELSE <<>>

RECURSIVE SlotLoopHalfStep(_, _)
SlotLoopHalfStep(slotStart, availabilityEnd) ==
  IF slotStart < availabilityEnd
    THEN LET slotEnd == slotStart + slotDurationMinutes
         IN  (IF slotEnd <= availabilityEnd
                THEN <<[start |-> slotStart, end |-> slotEnd, available |-> TRUE]>>
                ELSE <<>>)
             \o SlotLoopHalfStep(slotStart + 15, availabilityEnd)
    ELSE <<>>

\* Start and end instant of a day-entry's window on the calendar day of date
WindowStart(date, dayAvailability) ==
  LET hm == SplitTime(dayAvailability.startTime) IN setHours(date, hm[1], hm[2])

WindowEnd(date, dayAvailability) ==
  LET hm == SplitTime(dayAvailability.endTime) IN setHours(date, hm[1], hm[2])

generateDayTimeSlotsTruncating(date, dayAvailability) ==
  SlotLoopTruncating(WindowStart(date, dayAvailability), WindowEnd(date, dayAvailability))

generateDayTimeSlotsOverrunning(date, dayAvailability) ==
  SlotLoopOverrunning(WindowStart(date, dayAvailability), WindowEnd(date, dayAvailability))

generateDayTimeSlotsStrict(date, dayAvailability) ==
  SlotLoopStrict(WindowStart(date, dayAvailability), WindowEnd(date, dayAvailability))

generateDayTimeSlotsHalfStep(date, dayAvailability) ==
  SlotLoopHalfStep(WindowStart(date, dayAvailability), WindowEnd(date, dayAvailability))

generateDayTimeSlots(date, dayAvailability) ==
  SlotLoop(WindowStart(date, dayAvailability), WindowEnd(date, dayAvailability))

\* The overlap test inside filterAvailableSlots
isConflicting(slot, appointment) ==
  LET slotStart == slot.start
      slotEnd == slot.end
      appointmentStart == appointment.startTime
      appointmentEnd == appointment.endTime
  IN  \/ (slotStart >= appointmentStart /\ slotStart < appointmentEnd)
      \/ (slotEnd > appointmentStart /\ slotEnd <= appointmentEnd)
      \/ (slotStart <= appointmentStart /\ slotEnd >= appointmentEnd)

\* slots.map(slot => ({...slot, available: !appointments.some(conflict)}))
filterAvailableSlots(slots, appts) ==
  [i \in 1..Len(slots) |->
     [slots[i] EXCEPT !.available =
        ~(\E k \in 1..Len(appts) : isConflicting(slots[i], appts[k]))]]

FindDayLast(entries, dayOfWeek) ==
  LET hits == {i \in 1..Len(entries) : toLowerCase(entries[i].day) = dayOfWeek}
  IN  IF hits = {} THEN 0 ELSE CHOOSE i \in hits : \A j \in hits : i >= j

FindDayCaseSensitive(entries, dayOfWeek) ==
  LET hits == {i \in 1..Len(entries) : entries[i].day = dayOfWeek}
  IN  IF hits = {} THEN 0 ELSE CHOOSE i \in hits : \A j \in hits : i <= j

\* availability.find(slot => slot.day.toLowerCase() === dayOfWeek): the index of
\* the first matching entry, 0 when there is none
FindDay(entries, dayOfWeek) ==
  LET hits == {i \in 1..Len(entries) : toLowerCase(entries[i].day) = dayOfWeek}
  IN  IF hits = {} THEN 0 ELSE CHOOSE i \in hits : \A j \in hits : i <= j

RECURSIVE WalkDoWhile(_, _)
WalkDoWhile(currentDate, endDateTime) ==
  <<currentDate>>
  \o (IF NextDay(currentDate) <= endDateTime
        THEN WalkDoWhile(NextDay(currentDate), endDateTime)
        ELSE <<>>)

RECURSIVE Walk(_, _)
\* The values currentDate takes in the loop "while (currentDate <= endDateTime)"
Walk(currentDate, endDateTime) ==
  IF currentDate <= endDateTime
    THEN <<currentDate>> \o Walk(NextDay(currentDate), endDateTime)
    ELSE <<>>

\* The slots one iteration of the day loop pushes
DaySlots(entries, appts, currentDate) ==
  LET i == FindDay(entries, daysOfWeek[getDay(currentDate) + 1])
  IN  IF i = 0
        THEN <<>>
        ELSE filterAvailableSlots(generateDayTimeSlots(currentDate, entries[i]), appts)

RECURSIVE ConcatDays(_, _, _)
ConcatDays(entries, appts, dates) ==
  IF dates = <<>>
    THEN <<>>
    ELSE DaySlots(entries, appts, Head(dates)) \o ConcatDays(entries, appts, Tail(dates))

\* calculateAvailableSlots.  An availability value is [shape, entries]: shape
\* "array" for a JSON array of {day, startTime, endTime}, "object" for any other
\* JSON object, on which availability.find is not a function and the first
\* iteration of the day loop throws a TypeError.
calculateAvailableSlots(availability, appts, startDate, endDate) ==
  LET visited == Walk(startDate, endDate)
  IN  IF visited # <<>> /\ availability.shape # "array"
        THEN [threw |-> TRUE, slots |-> <<>>, visited |-> <<Head(visited)>>]
        ELSE [threw |-> FALSE,
              slots |-> ConcatDays(availability.entries, appts, visited),
              visited |-> visited]

\* The caller's arguments as a call of calculateAvailableSlots leaves them, had
\* the day loop advanced the caller's startDate instead of a copy of it
ArgumentsAfterSharedDate(availability, appts, startDate, endDate) ==
  LET r == calculateAvailableSlots(availability, appts, startDate, endDate)
  IN  [availability |-> availability, appointments |-> appts,
       startDate |-> IF r.threw \/ r.visited = <<>>
                       THEN startDate
                       ELSE NextDay(r.visited[Len(r.visited)]),
       endDate |-> endDate]

\* The caller's arguments as a call of calculateAvailableSlots leaves them.
\* The engine works on copies: currentDate and endDateTime are new Date(...) of
\* the arguments, generateDayTimeSlots calls setHours on new Date(date) and
\* pushes new Date(slotStart) / new Date(slotEnd), filterAvailableSlots builds
\* its result with map and {...slot}, and the two lists are only read.
ArgumentsAfter(availability, appts, startDate, endDate) ==
  [availability |-> availability, appointments |-> appts,
   startDate |-> startDate, endDate |-> endDate]

-----------------------------------------------------------------------------
(* Stored values *)

Users == {"u1", "u2"}
NoUser == "anonymous"
Null == "null"
\* An absent timestamp field of an input (undefined)
NoTime == 0 - 1

\* No Authorization header; token t > 0 is the t-th value crypto.randomBytes
\* gave login, and the token column of a row holds 0 for NULL
NoToken == 0

\* A row of users: absent, stored, or removed by DELETE (ids are not reused)
NoRow == [state |-> "none", password |-> Null, token |-> NoToken]

\* No request served yet
NoResponse ==
  [op |-> "none", token |-> NoToken, user |-> NoUser, userId |-> NoUser,
   eventId |-> 0, ok |-> FALSE, issued |-> NoToken]

\* The createUser requests a run may hold
MaxSignups == 3
SignupRequests == 1..MaxSignups

\* A createUser request not yet received
NoSignup ==
  [pc |-> "none", api |-> "none", email |-> "none", result |-> "none",
   code |-> "none"]

\* No user row and no createUser request
NoSignups == [rows |-> <<>>, requests |-> [r \in SignupRequests |-> NoSignup]]

\* JSON.stringify of an availability value, and JSON.parse of a stored text.
\* Every writer of schedules.availability stores JSON.stringify(value).
JSONstringify(value) == [wellFormed |-> TRUE, value |-> value]
JSONparse(text) == [threw |-> ~text.wellFormed, value |-> text.value]

ArrayOf(entries) == [shape |-> "array", entries |-> entries]
Entry(day, startTime, endTime) ==
  [day |-> day, startTime |-> startTime, endTime |-> endTime]

\* {monday: [{start, end}, ...], ...}: the shape the example client sends
ObjectAvailability == [shape |-> "object", entries |-> <<>>]

\* Availability values a client submits to createSchedule / updateSchedule
ClientAvailabilities ==
  { ArrayOf(<<Entry("monday", "09:00", "10:00")>>), ObjectAvailability }

\* 09:00, 09:15, 09:30 and 10:00 of day 0
T0900 == (9 * 60)
T0915 == (9 * 60) + 15
T0930 == (9 * 60) + 30
T1000 == (10 * 60)

\* (startTime, endTime) pairs a client submits for an appointment: a booking of
\* the 09:00 slot and a zero-length booking at 09:30
ClientIntervals == { <<T0900, T0930>>, <<T0930, T0930>> }

\* (startDate, endDate) pairs a client submits to availableSlots: the whole
\* window, a range that starts inside the 09:00 slot, and an inverted range
ClientRanges == { <<T0900, T1000>>, <<T0915, T1000>>, <<T1000, T0900>> }

ClientStatuses == {"canceled", "cancelled"}

-----------------------------------------------------------------------------
(* SQL statements *)

RECURSIVE RowsAt(_, _)
\* The rows of a table, in table order, whose index is in keep
RowsAt(table, keep) ==
  IF table = <<>>
    THEN <<>>
    ELSE RowsAt(SubSeq(table, 1, Len(table) - 1), keep)
         \o (IF Len(table) \in keep THEN <<table[Len(table)]>> ELSE <<>>)

\* SELECT * FROM schedules WHERE userId = ?  (db.get: the first row, or none)
ScheduleRows(userId) == {i \in 1..Len(schedules) : schedules[i].userId = userId}
HasSchedule(userId) == ScheduleRows(userId) # {}
SelectSchedule(userId) ==
  schedules[CHOOSE i \in ScheduleRows(userId) : \A j \in ScheduleRows(userId) : i <= j]

\* A row of events or appointments that DELETE has not removed
Stored(table, id) == id \in 1..Len(table) /\ table[id].live

SelectAppointmentsAnyStatus(table, userId, startDate, endDate) ==
  RowsAt(table, {i \in 1..Len(table) :
    /\ table[i].live
    /\ table[i].userId = userId
    /\ table[i].startTime >= startDate
    /\ table[i].endTime <= endDate})

\* SELECT * FROM appointments WHERE userId = ? AND startTime >= ?
\*   AND endTime <= ? AND status != "canceled"
SelectAppointments(table, userId, startDate, endDate) ==
  RowsAt(table, {i \in 1..Len(table) :
    /\ table[i].live
    /\ table[i].userId = userId
    /\ table[i].startTime >= startDate
    /\ table[i].endTime <= endDate
    /\ table[i].status # "canceled"})

-----------------------------------------------------------------------------
(* The availableSlots query *)

NoScheduleMessage == "No schedule found for this user"
InvalidFormatMessage == "Invalid availability data format"
FailedMessage == "Failed to retrieve available time slots"

NoAvailability == [shape |-> "none", entries |-> <<>>]

Idle ==
  [phase |-> "idle", userId |-> NoUser, startDate |-> 0, endDate |-> 0,
   availability |-> NoAvailability, ok |-> FALSE, thrown |-> Null,
   message |-> Null, slots |-> <<>>, called |-> FALSE, handed |-> <<>>,
   watched |-> FALSE, atomic |-> {}]

\* The catch of lines 51-54: whatever was thrown inside the try is logged, and
\* the caller gets one fixed message
Failed(userId, startDate, endDate, availability, thrown) ==
  [phase |-> "done", userId |-> userId, startDate |-> startDate,
   endDate |-> endDate, availability |-> availability, ok |-> FALSE,
   thrown |-> thrown, message |-> FailedMessage, slots |-> <<>>,
   called |-> FALSE, handed |-> <<>>, watched |-> FALSE, atomic |-> {}]

\* Lines 36-50: the appointment query, the engine, the return.  called records
\* that the request invoked calculateAvailableSlots (line 42), handed the
\* appointment list it passed.
Answer(userId, startDate, endDate, availability, table) ==
  LET selected == SelectAppointments(table, userId, startDate, endDate)
      r == calculateAvailableSlots(availability, selected, startDate, endDate)
  IN  IF r.threw
        THEN [Failed(userId, startDate, endDate, availability, "TypeError")
                EXCEPT !.called = TRUE, !.handed = selected]
        ELSE [phase |-> "done", userId |-> userId, startDate |-> startDate,
              endDate |-> endDate, availability |-> availability, ok |-> TRUE,
              thrown |-> Null, message |-> Null, slots |-> r.slots,
              called |-> TRUE, handed |-> selected, watched |-> FALSE,
              atomic |-> {}]

\* What the caller sees of a request's outcome
Outcome(answer) == [ok |-> answer.ok, slots |-> answer.slots]

\* The outcome of the two reads of lines 18 and 37 made on one stored state,
\* the tables scheds and appts
AtomicOutcome(userId, startDate, endDate, scheds, appts) ==
  LET rows == {i \in 1..Len(scheds) : scheds[i].userId = userId}
      first == CHOOSE i \in rows : \A j \in rows : i <= j
      parsed == JSONparse(scheds[first].availability)
  IN  IF rows = {}
        THEN Outcome(Failed(userId, startDate, endDate, NoAvailability,
                            NoScheduleMessage))
        ELSE IF parsed.threw
          THEN Outcome(Failed(userId, startDate, endDate, NoAvailability,
                              InvalidFormatMessage))
          ELSE Outcome(Answer(userId, startDate, endDate, parsed.value, appts))

\* History of a watched request.  q.watched is set by the initial state of
\* SpecSnapshot and kept from request to request; for a watched request
\* between its two reads q.atomic holds the outcomes the two reads would have
\* had on each state stored since the first read.  Watch adds the outcome on
\* the state of the first read, Coexisting the outcome on the state a handler
\* that writes schedules or appointments leaves.
Watch(old, new, scheds, appts) ==
  IF old.watched
    THEN [new EXCEPT !.watched = TRUE,
                     !.atomic = IF new.phase = "appointments"
                                  THEN {AtomicOutcome(new.userId, new.startDate,
                                                      new.endDate, scheds, appts)}
                                  ELSE old.atomic]
    ELSE new

Coexisting(request, scheds, appts) ==
  IF request.watched /\ request.phase = "appointments"
    THEN [request EXCEPT !.atomic =
            @ \cup {AtomicOutcome(request.userId, request.startDate,
                                  request.endDate, scheds, appts)}]
    ELSE request

QueryStartUpserting(userId, startDate, endDate) ==
  /\ q.phase = "idle"
  /\ IF ~HasSchedule(userId)
       THEN /\ Len(schedules) < MaxSchedRows
            /\ schedules' = Append(schedules,
                                   [userId |-> userId,
                                    availability |-> JSONstringify(ArrayOf(<<>>))])
            /\ q' = [Idle EXCEPT !.phase = "appointments",
                                 !.userId = userId,
                                 !.startDate = startDate,
                                 !.endDate = endDate,
                                 !.availability = ArrayOf(<<>>)]
       ELSE /\ schedules' = schedules
            /\ LET parsed == JSONparse(SelectSchedule(userId).availability)
               IN  q' = IF parsed.threw
                          THEN Failed(userId, startDate, endDate, NoAvailability,
                                      InvalidFormatMessage)
                          ELSE [Idle EXCEPT !.phase = "appointments",
                                            !.userId = userId,
                                            !.startDate = startDate,
                                            !.endDate = endDate,
                                            !.availability = parsed.value]
  /\ UNCHANGED <<events, appointments, eng, accounts>>

QueryStartLenient(userId, startDate, endDate) ==
  /\ q.phase = "idle"
  /\ q' = [Idle EXCEPT !.phase = "appointments",
                       !.userId = userId,
                       !.startDate = startDate,
                       !.endDate = endDate,
                       !.availability =
                         IF HasSchedule(userId)
                              /\ ~JSONparse(SelectSchedule(userId).availability).threw
                           THEN JSONparse(SelectSchedule(userId).availability).value
                           ELSE ArrayOf(<<>>)]
  /\ UNCHANGED <<events, schedules, appointments, eng, accounts>>

\* Lines 13-34: up to and including the parse of the stored availability
QueryStart(userId, startDate, endDate) ==
  /\ q.phase = "idle"
  /\ q' = Watch(q,
                IF ~HasSchedule(userId)
                  THEN Failed(userId, startDate, endDate, NoAvailability,
                              NoScheduleMessage)
                  ELSE LET parsed == JSONparse(SelectSchedule(userId).availability)
                       IN  IF parsed.threw
                             THEN Failed(userId, startDate, endDate, NoAvailability,
                                         InvalidFormatMessage)
                             ELSE [Idle EXCEPT !.phase = "appointments",
                                               !.userId = userId,
                                               !.startDate = startDate,
                                               !.endDate = endDate,
                                               !.availability = parsed.value],
                schedules, appointments)
  /\ UNCHANGED <<events, schedules, appointments, eng, accounts>>

QueryFinish ==
  /\ q.phase = "appointments"
  /\ q' = Watch(q, Answer(q.userId, q.startDate, q.endDate, q.availability,
                          appointments),
                schedules, appointments)
  /\ UNCHANGED <<events, schedules, appointments, eng, accounts>>

\* The response leaves the server in the turn that computed it: no other
\* handler runs between QueryFinish and Respond, which are one continuation of
\* the resolver, split so that the response is a state.
NotResponding == q.phase # "done"

Respond ==
  /\ q.phase = "done"
  /\ q' = Watch(q, Idle, schedules, appointments)
  /\ UNCHANGED <<events, schedules, appointments, eng, accounts>>

-----------------------------------------------------------------------------
(* Events *)

\* A row of events.  A row DELETE has removed stays in the sequence with
\* live = FALSE and the API that removed it, and no statement selects it: ids are
\* UUIDs (GraphQL) or timestamps (REST) and are not given out again.
EventRow(userId) == [userId |-> userId, live |-> TRUE, removedBy |-> Null]

createEvent(user) ==
  /\ NotResponding
  /\ user # NoUser
  /\ Len(events) < MaxEvents
  /\ events' = Append(events, EventRow(user))
  /\ UNCHANGED <<schedules, appointments, q, eng, accounts>>

-----------------------------------------------------------------------------
(* Schedules *)

checkOwnershipAuthOnly(userId, user) == user # NoUser

\* checkOwnership of the schedule resolvers lets the request through exactly
\* when it is authenticated as userId
checkOwnership(userId, user) == user # NoUser /\ user = userId

createSchedule(user, userId, availability) ==
  /\ NotResponding
  /\ checkOwnership(userId, user)
  /\ Len(schedules) < MaxSchedRows
  /\ schedules' = Append(schedules,
                         [userId |-> userId, availability |-> JSONstringify(availability)])
  /\ q' = Coexisting(q, schedules', appointments)
  /\ UNCHANGED <<events, appointments, eng, accounts>>

updateSchedule(user, userId, availability) ==
  /\ NotResponding
  /\ checkOwnership(userId, user)
  /\ HasSchedule(userId)
  /\ schedules' = [i \in 1..Len(schedules) |->
                     IF schedules[i].userId = userId
                       THEN [schedules[i] EXCEPT !.availability = JSONstringify(availability)]
                       ELSE schedules[i]]
  /\ q' = Coexisting(q, schedules', appointments)
  /\ UNCHANGED <<events, appointments, eng, accounts>>

deleteSchedule(user, userId) ==
  /\ NotResponding
  /\ checkOwnership(userId, user)
  /\ HasSchedule(userId)
  /\ schedules' = RowsAt(schedules, {i \in 1..Len(schedules) : schedules[i].userId # userId})
  /\ q' = Coexisting(q, schedules', appointments)
  /\ UNCHANGED <<events, appointments, eng, accounts>>

-----------------------------------------------------------------------------
(* Appointments *)

Appointment(userId, eventId, startTime, endTime) ==
  [userId |-> userId, eventId |-> eventId, startTime |-> startTime,
   endTime |-> endTime, status |-> "scheduled", live |-> TRUE]

\* GraphQL createAppointment
createAppointment(user, eventId, startTime, endTime) ==
  /\ NotResponding
  /\ user # NoUser
  /\ Stored(events, eventId) /\ events[eventId].userId = user
  /\ Len(appointments) < MaxAppts
  /\ appointments' = Append(appointments, Appointment(user, eventId, startTime, endTime))
  /\ q' = Coexisting(q, schedules, appointments')
  /\ UNCHANGED <<events, schedules, eng, accounts>>

\* REST POST /appointments: no check of the event
restCreateAppointment(user, eventId, startTime, endTime) ==
  /\ NotResponding
  /\ user # NoUser
  /\ Len(appointments) < MaxAppts
  /\ appointments' = Append(appointments, Appointment(user, eventId, startTime, endTime))
  /\ q' = Coexisting(q, schedules, appointments')
  /\ UNCHANGED <<events, schedules, eng, accounts>>

\* checkAppointmentOwnership followed by an UPDATE that changes a row
OwnsAppointment(user, appointmentId) ==
  /\ user # NoUser
  /\ Stored(appointments, appointmentId)
  /\ appointments[appointmentId].userId = user

\* UPDATE appointments SET <the fields given> WHERE id = ?
UpdateRow(row, input) ==
  [row EXCEPT
     !.startTime = IF input.startTime # NoTime THEN input.startTime ELSE @,
     !.endTime = IF input.endTime # NoTime THEN input.endTime ELSE @,
     !.status = IF input.status # Null THEN input.status ELSE @]

\* Update inputs: a new status, a new interval, or both
UpdateInputs ==
  { [startTime |-> NoTime, endTime |-> NoTime, status |-> s] : s \in ClientStatuses }
  \cup
  { [startTime |-> iv[1], endTime |-> iv[2], status |-> s] :
      iv \in ClientIntervals, s \in ClientStatuses \cup {Null} }

\* GraphQL updateAppointment
updateAppointment(user, appointmentId, input) ==
  /\ NotResponding
  /\ OwnsAppointment(user, appointmentId)
  /\ appointments' = [appointments EXCEPT ![appointmentId] = UpdateRow(@, input)]
  /\ q' = Coexisting(q, schedules, appointments')
  /\ UNCHANGED <<events, schedules, eng, accounts>>

\* REST PATCH /appointments/:appointmentId
restPatchAppointment(user, appointmentId, input) ==
  /\ NotResponding
  /\ OwnsAppointment(user, appointmentId)
  /\ appointments' = [appointments EXCEPT ![appointmentId] = UpdateRow(@, input)]
  /\ q' = Coexisting(q, schedules, appointments')
  /\ UNCHANGED <<events, schedules, eng, accounts>>

\* GraphQL deleteAppointment.  The row stays in the sequence with live = FALSE,
\* which no statement selects: ids are UUIDs and are never given out again.
deleteAppointment(user, appointmentId) ==
  /\ NotResponding
  /\ OwnsAppointment(user, appointmentId)
  /\ appointments' = [appointments EXCEPT ![appointmentId].live = FALSE]
  /\ q' = Coexisting(q, schedules, appointments')
  /\ UNCHANGED <<events, schedules, eng, accounts>>

-----------------------------------------------------------------------------
(* The service *)

\* eng holds the caller's four argument values as they are now, the values the
\* caller first passed (given), what the first and the second call returned,
\* and the locals of a call that is run loop iteration by loop iteration:
\* currentDate, and slotStart, availabilityEnd and slots (daySlots) of
\* generateDayTimeSlots
EngineOff ==
  [pc |-> "off", availability |-> NoAvailability, appointments |-> <<>>,
   startDate |-> 0, endDate |-> 0, threw |-> FALSE, slots |-> <<>>,
   visited |-> <<>>,
   given |-> ArgumentsAfter(NoAvailability, <<>>, 0, 0),
   threw2 |-> FALSE, slots2 |-> <<>>,
   currentDate |-> 0, slotStart |-> 0, availabilityEnd |-> 0, daySlots |-> <<>>]

Init ==
  /\ events = <<>>
  /\ schedules = <<>>
  /\ appointments = <<>>
  /\ q = Idle
  /\ eng = EngineOff
  /\ users = [u \in Users |-> NoRow]
  /\ tokens = <<>>
  /\ rsp = NoResponse
  /\ signup = NoSignups

Next ==
  \/ \E userId \in Users, range \in ClientRanges : QueryStart(userId, range[1], range[2])
  \/ QueryFinish
  \/ Respond
  \/ \E user \in Users : createEvent(user)
  \/ \E user \in Users, userId \in Users, availability \in ClientAvailabilities :
       createSchedule(user, userId, availability)
  \/ \E user \in Users, userId \in Users, availability \in ClientAvailabilities :
       updateSchedule(user, userId, availability)
  \/ \E user \in Users, userId \in Users : deleteSchedule(user, userId)
  \/ \E user \in Users, eventId \in 1..MaxEvents, iv \in ClientIntervals :
       createAppointment(user, eventId, iv[1], iv[2])
  \/ \E user \in Users, eventId \in 1..MaxEvents, iv \in ClientIntervals :
       restCreateAppointment(user, eventId, iv[1], iv[2])
  \/ \E user \in Users, id \in 1..MaxAppts, input \in UpdateInputs :
       updateAppointment(user, id, input)
  \/ \E user \in Users, id \in 1..MaxAppts, input \in UpdateInputs :
       restPatchAppointment(user, id, input)
  \/ \E user \in Users, id \in 1..MaxAppts : deleteAppointment(user, id)

Spec == Init /\ [][Next]_vars

-----------------------------------------------------------------------------
(* The availableSlots query over the database file as the server opens it *)

\* A stored text JSON.parse rejects.  Every INSERT and UPDATE of schedules in
\* the two servers stores the result of JSON.stringify; the column is TEXT
\* with no constraint, and the file outlives the servers, so the rows the
\* query reads at line 18 are whatever the file holds.
TruncatedText == [wellFormed |-> FALSE, value |-> NoAvailability]

StoredTexts ==
  {JSONstringify(availability) : availability \in ClientAvailabilities}
    \cup {TruncatedText}

StoredScheduleRows == [userId : Users, availability : StoredTexts]

StoredScheduleTables ==
  UNION {[1..n -> StoredScheduleRows] : n \in 0..MaxSchedRows}

StoredAppointmentTables == {<<>>, <<Appointment("u1", 1, T0900, T0930)>>}

InitStored ==
  /\ events = <<EventRow("u1")>>
  /\ schedules \in StoredScheduleTables
  /\ appointments \in StoredAppointmentTables
  /\ q = Idle
  /\ eng = EngineOff
  /\ users = [u \in Users |-> NoRow]
  /\ tokens = <<>>
  /\ rsp = NoResponse
  /\ signup = NoSignups

NextStored ==
  \/ \E userId \in Users, range \in ClientRanges : QueryStart(userId, range[1], range[2])
  \/ QueryFinish
  \/ Respond

SpecStored == InitStored /\ [][NextStored]_vars

-----------------------------------------------------------------------------
(* createUser requests of both servers on the one users table.  A GraphQL   *)
(* request is two steps with an await between them, the existence check and *)
(* the INSERT; a REST request is the INSERT alone.                          *)

\* The emails clients sign up with; the last has no @
ClientEmails == {"ann@example.com", "bob@example.com", "ann.example.com"}

\* /^[^\s@]+@[^\s@]+\.[^\s@]+$/ on the emails above
isValidEmail(email) == email \in {"ann@example.com", "bob@example.com"}

\* Date.now() of a REST request: two requests may fall in one millisecond
Milliseconds == 1..2

\* SELECT id FROM users WHERE email = ?
EmailStored(rows, email) == \E i \in 1..Len(rows) : rows[i].email = email

\* INSERT INTO users with no constraint on email
InsertUserNoUnique(rows, row) ==
  IF \E i \in 1..Len(rows) : rows[i].id = row.id
    THEN [ok |-> FALSE, message |-> "UNIQUE constraint failed: users.id",
          rows |-> rows]
    ELSE [ok |-> TRUE, message |-> "none", rows |-> Append(rows, row)]

\* INSERT INTO users under id TEXT PRIMARY KEY and email TEXT NOT NULL UNIQUE
InsertUser(rows, row) ==
  IF \E i \in 1..Len(rows) : rows[i].id = row.id
    THEN [ok |-> FALSE, message |-> "UNIQUE constraint failed: users.id",
          rows |-> rows]
    ELSE IF EmailStored(rows, row.email)
      THEN [ok |-> FALSE, message |-> "UNIQUE constraint failed: users.email",
            rows |-> rows]
      ELSE [ok |-> TRUE, message |-> "none", rows |-> Append(rows, row)]

\* GraphQL createUser up to the await of the existence check
gqlCreateUserCheck(r, email) ==
  /\ signup.requests[r].pc = "none"
  /\ signup' = [signup EXCEPT !.requests[r] =
       IF ~isValidEmail(email)
         THEN [pc |-> "done", api |-> "graphql", email |-> email,
               result |-> "Error", code |-> "BAD_INPUT"]
         ELSE IF EmailStored(signup.rows, email)
           THEN [pc |-> "done", api |-> "graphql", email |-> email,
                 result |-> "Error", code |-> "DUPLICATE"]
           ELSE [pc |-> "checked", api |-> "graphql", email |-> email,
                 result |-> "none", code |-> "none"]]
  /\ UNCHANGED <<events, schedules, appointments, q, eng, users, tokens, rsp>>

\* GraphQL createUser from the INSERT on: the id is a fresh UUID, a failed
\* INSERT is caught and returned as an Error of code DATABASE_ERROR
gqlCreateUserInsert(r) ==
  LET request == signup.requests[r]
      inserted == InsertUser(signup.rows,
                             [id |-> <<"uuid", r>>, email |-> request.email,
                              by |-> r])
  IN  /\ request.pc = "checked"
      /\ signup' = [rows |-> inserted.rows,
                    requests |-> [signup.requests EXCEPT ![r] =
                      [request EXCEPT !.pc = "done",
                         !.result = IF inserted.ok THEN "User" ELSE "Error",
                         !.code = IF inserted.ok THEN "none"
                                                 ELSE "DATABASE_ERROR"]]]
      /\ UNCHANGED <<events, schedules, appointments, q, eng, users, tokens,
                     rsp>>

\* REST POST /users: the id is Date.now().toString(); 201 with the user, 400
\* for a bad email or a failure on users.email, 500 for any other failure
restCreateUser(r, email, now) ==
  LET inserted == InsertUser(signup.rows,
                             [id |-> <<"ms", now>>, email |-> email, by |-> r])
      done == isValidEmail(email) /\ inserted.ok
  IN  /\ signup.requests[r].pc = "none"
      /\ signup' = [rows |-> IF done THEN inserted.rows ELSE signup.rows,
                    requests |-> [signup.requests EXCEPT ![r] =
                      [pc |-> "done", api |-> "rest", email |-> email,
                       result |-> IF done THEN "User" ELSE "Error",
                       code |-> IF done THEN "201"
                                ELSE IF ~isValidEmail(email) THEN "400"
                                ELSE IF inserted.message =
                                          "UNIQUE constraint failed: users.email"
                                  THEN "400" ELSE "500"]]]
      /\ UNCHANGED <<events, schedules, appointments, q, eng, users, tokens,
                     rsp>>

NextSignup ==
  \/ \E r \in SignupRequests, email \in ClientEmails :
       gqlCreateUserCheck(r, email)
  \/ \E r \in SignupRequests : gqlCreateUserInsert(r)
  \/ \E r \in SignupRequests, email \in ClientEmails, now \in Milliseconds :
       restCreateUser(r, email, now)

SpecSignup == Init /\ [][NextSignup]_vars

-----------------------------------------------------------------------------
(* Events and the appointments that refer to them *)

\* GraphQL deleteEvent by an authenticated user: DELETE FROM events WHERE
\* id = ? once the event is found to be the user's.  No PRAGMA foreign_keys
\* is issued on the connection, so the FOREIGN KEY (eventId) of appointments
\* restrains nothing, and the resolver does not look at appointments.
deleteEvent(user, eventId) ==
  /\ NotResponding
  /\ user # NoUser
  /\ Stored(events, eventId)
  /\ events[eventId].userId = user
  /\ events' = [events EXCEPT ![eventId].live = FALSE,
                              ![eventId].removedBy = "GraphQL"]
  /\ UNCHANGED <<schedules, appointments, q, eng, accounts>>

NextAppointments ==
  \/ \E user \in Users : createEvent(user)
  \/ \E user \in Users, eventId \in 1..MaxEvents, iv \in ClientIntervals :
       createAppointment(user, eventId, iv[1], iv[2])
  \/ \E user \in Users, id \in 1..MaxAppts, input \in UpdateInputs :
       updateAppointment(user, id, input)
  \/ \E user \in Users, eventId \in 1..MaxEvents : deleteEvent(user, eventId)

SpecAppointments == Init /\ [][NextAppointments]_vars

-----------------------------------------------------------------------------
(* The availableSlots query among the writes of other callers *)

\* The callers of SpecSnapshot: the host whose slots are queried
SnapshotUsers == {"u1"}

\* u1 has an event and a schedule; requests are watched
InitSnapshot ==
  /\ events = <<EventRow("u1")>>
  /\ schedules = <<[userId |-> "u1",
                    availability |->
                      JSONstringify(ArrayOf(<<Entry("monday", "09:00", "10:00")>>))]>>
  /\ appointments = <<>>
  /\ q = [Idle EXCEPT !.watched = TRUE]
  /\ eng = EngineOff
  /\ users = [u \in Users |-> NoRow]
  /\ tokens = <<>>
  /\ rsp = NoResponse
  /\ signup = NoSignups

NextSnapshot ==
  \/ \E userId \in SnapshotUsers, range \in ClientRanges :
       QueryStart(userId, range[1], range[2])
  \/ QueryFinish
  \/ Respond
  \/ \E user \in SnapshotUsers, availability \in ClientAvailabilities :
       updateSchedule(user, user, availability)
  \/ \E user \in SnapshotUsers, eventId \in 1..MaxEvents, iv \in ClientIntervals :
       createAppointment(user, eventId, iv[1], iv[2])
  \/ \E user \in SnapshotUsers, id \in 1..MaxAppts, input \in UpdateInputs :
       updateAppointment(user, id, input)
  \/ \E user \in SnapshotUsers, id \in 1..MaxAppts : deleteAppointment(user, id)

SpecSnapshot == InitSnapshot /\ [][NextSnapshot]_vars

-----------------------------------------------------------------------------
(* Direct invocations of the engine *)

EngineDayTimes == {T0900, T0930, T1000}
EngineTimes == {(d * MinutesPerDay) + t : d \in 0..MaxDay, t \in EngineDayTimes}

EngineAvailabilities ==
  { ArrayOf(<<>>),
    ArrayOf(<<Entry("monday", "09:00", "10:15")>>),
    ArrayOf(<<Entry("Monday", "09:30", "10:00"), Entry("monday", "09:00", "11:00")>>),
    ArrayOf(<<Entry("monday", "10:00", "09:00"), Entry("TUESDAY", "09:00", "10:00")>>),
    ArrayOf(<<Entry("tuesday", "09:30", "10:15"), Entry("MONDAY", "09:00", "10:00")>>),
    ArrayOf(<<Entry("monday", "10:00", "10:15"), Entry("Tuesday", "09:00", "09:30")>>),
    ArrayOf(<<Entry("monday", "09:00", "12:00")>>),
    ObjectAvailability }

EngineAppointment(startTime, endTime) == Appointment("u1", 1, startTime, endTime)

EngineAppointmentLists ==
  { <<>>,
    <<EngineAppointment(T0900, T0930)>>,
    <<EngineAppointment(T0930, T0930), EngineAppointment(MinutesPerDay + T0900, MinutesPerDay + T1000)>> }

InitEngine ==
  /\ events = <<>>
  /\ schedules = <<>>
  /\ appointments = <<>>
  /\ q = Idle
  /\ users = [u \in Users |-> NoRow]
  /\ tokens = <<>>
  /\ rsp = NoResponse
  /\ signup = NoSignups
  /\ eng \in { [EngineOff EXCEPT !.pc = "call", !.availability = av,
                                 !.appointments = al, !.startDate = s,
                                 !.endDate = e,
                                 !.given = [availability |-> av,
                                            appointments |-> al,
                                            startDate |-> s, endDate |-> e]] :
               av \in EngineAvailabilities, al \in EngineAppointmentLists,
               s \in EngineTimes, e \in EngineTimes }

EngineCall ==
  /\ eng.pc = "call"
  /\ LET r == calculateAvailableSlots(eng.availability, eng.appointments,
                                      eng.startDate, eng.endDate)
         after == ArgumentsAfter(eng.availability, eng.appointments,
                                 eng.startDate, eng.endDate)
     IN  eng' = [eng EXCEPT !.pc = "return", !.threw = r.threw,
                            !.slots = r.slots, !.visited = r.visited,
                            !.availability = after.availability,
                            !.appointments = after.appointments,
                            !.startDate = after.startDate,
                            !.endDate = after.endDate]
  /\ UNCHANGED <<events, schedules, appointments, q, accounts>>

\* The caller invokes the engine once more with the same four values
EngineRecall ==
  /\ eng.pc = "return"
  /\ LET r == calculateAvailableSlots(eng.availability, eng.appointments,
                                      eng.startDate, eng.endDate)
         after == ArgumentsAfter(eng.availability, eng.appointments,
                                 eng.startDate, eng.endDate)
     IN  eng' = [eng EXCEPT !.pc = "again", !.threw2 = r.threw,
                            !.slots2 = r.slots,
                            !.availability = after.availability,
                            !.appointments = after.appointments,
                            !.startDate = after.startDate,
                            !.endDate = after.endDate]
  /\ UNCHANGED <<events, schedules, appointments, q, accounts>>

NextEngine == EngineCall \/ EngineRecall

SpecEngine == InitEngine /\ [][NextEngine]_vars

-----------------------------------------------------------------------------
(* One invocation of the engine, a loop iteration at a time *)

\* Lines 69-77: the locals before the day loop
EnterEngine ==
  /\ eng.pc = "call"
  /\ eng' = [eng EXCEPT !.pc = "day", !.currentDate = eng.startDate,
                        !.slots = <<>>, !.visited = <<>>]
  /\ UNCHANGED <<events, schedules, appointments, q, accounts>>

DayLoopNotAdvancing ==
  /\ eng.pc = "day"
  /\ LET entries == eng.availability.entries
         i == FindDay(entries, daysOfWeek[getDay(eng.currentDate) + 1])
     IN  eng' =
           IF ~(eng.currentDate <= eng.endDate)
             THEN [eng EXCEPT !.pc = "return"]
           ELSE IF eng.availability.shape # "array"
             THEN [eng EXCEPT !.pc = "return", !.threw = TRUE, !.slots = <<>>,
                              !.visited = Append(eng.visited, eng.currentDate)]
           ELSE IF i = 0
             THEN eng
           ELSE [eng EXCEPT !.pc = "slot",
                            !.visited = Append(eng.visited, eng.currentDate),
                            !.slotStart = WindowStart(eng.currentDate, entries[i]),
                            !.availabilityEnd = WindowEnd(eng.currentDate, entries[i]),
                            !.daySlots = <<>>]
  /\ UNCHANGED <<events, schedules, appointments, q, accounts>>

\* Lines 80-86 and 96-100: the test of the day loop, the lookup of the day's
\* entry, and for a day without an entry the step to the next day; for a day
\* with an entry, lines 107-123 of generateDayTimeSlots.  An availability
\* value that is not an array throws at line 84.
DayLoop ==
  /\ eng.pc = "day"
  /\ LET entries == eng.availability.entries
         i == FindDay(entries, daysOfWeek[getDay(eng.currentDate) + 1])
     IN  eng' =
           IF ~(eng.currentDate <= eng.endDate)
             THEN [eng EXCEPT !.pc = "return"]
           ELSE IF eng.availability.shape # "array"
             THEN [eng EXCEPT !.pc = "return", !.threw = TRUE, !.slots = <<>>,
                              !.visited = Append(eng.visited, eng.currentDate)]
           ELSE IF i = 0
             THEN [eng EXCEPT !.visited = Append(eng.visited, eng.currentDate),
                              !.currentDate = NextDay(eng.currentDate)]
           ELSE [eng EXCEPT !.pc = "slot",
                            !.visited = Append(eng.visited, eng.currentDate),
                            !.slotStart = WindowStart(eng.currentDate, entries[i]),
                            !.availabilityEnd = WindowEnd(eng.currentDate, entries[i]),
                            !.daySlots = <<>>]
  /\ UNCHANGED <<events, schedules, appointments, q, accounts>>

\* Lines 126-143, then 91-97: one iteration of the slot loop; when its test
\* fails, the day's slots are filtered and pushed and the day loop moves on
SlotLoopStep ==
  /\ eng.pc = "slot"
  /\ eng' =
       IF eng.slotStart < eng.availabilityEnd
         THEN LET slotEnd == eng.slotStart + slotDurationMinutes
              IN  [eng EXCEPT !.daySlots =
                                 IF slotEnd <= eng.availabilityEnd
                                   THEN Append(eng.daySlots,
                                               [start |-> eng.slotStart,
                                                end |-> slotEnd,
                                                available |-> TRUE])
                                   ELSE eng.daySlots,
                               !.slotStart = eng.slotStart + slotDurationMinutes]
         ELSE [eng EXCEPT !.pc = "day",
                          !.slots = eng.slots
                                      \o filterAvailableSlots(eng.daySlots,
                                                              eng.appointments),
                          !.currentDate = NextDay(eng.currentDate)]
  /\ UNCHANGED <<events, schedules, appointments, q, accounts>>

NextLoops == EnterEngine \/ DayLoop \/ SlotLoopStep

\* A call runs to completion: nothing suspends the two loops
SpecLoops == InitEngine /\ [][NextLoops]_vars /\ WF_vars(NextLoops)

-----------------------------------------------------------------------------
(* Accounts, sessions and requests that carry a bearer token.               *)
(* A request is served in one step: the middleware, then the resolver or    *)
(* route handler.  The GraphQL handlers of this section are named gql...,   *)
(* the REST handlers rest...                                                *)

\* The password the tests register users with, and what a client may submit
Password == "test123"
ClientPasswords == {"test123", "guess"}

\* Bearer values: none (0), or the t-th token of login
BearerValues == 0..MaxLogins

\* Bearer values a client presents: none, or a token login has returned
ClientTokens == 0..Len(tokens)

\* SELECT * FROM users WHERE token = ?
UserOfToken(token) ==
  LET holders == {u \in Users : users[u].state = "stored" /\ users[u].token = token}
  IN  IF token # NoToken /\ holders # {} THEN CHOOSE u \in holders : TRUE ELSE NoUser

\* authMiddleware of the GraphQL server.  public is the verdict of
\* isPublicOperation on the request (GET, an operation name or a query text
\* that matches the public list); next = FALSE is the 401 answer.
authMiddleware(token, public) ==
  IF public
    THEN [next |-> TRUE, user |-> NoUser]
    ELSE IF token = NoToken
      THEN [next |-> FALSE, user |-> NoUser]
      ELSE IF UserOfToken(token) # NoUser
        THEN [next |-> TRUE, user |-> UserOfToken(token)]
        ELSE [next |-> FALSE, user |-> NoUser]

\* auth of the REST API
auth(token) ==
  IF token = NoToken \/ UserOfToken(token) = NoUser
    THEN [next |-> FALSE, user |-> NoUser]
    ELSE [next |-> TRUE, user |-> UserOfToken(token)]

\* checkOwnership of the REST API: req.user && req.user.id === userId
restCheckOwnership(userId, user) == user # NoUser /\ user = userId

\* What a served request leaves in rsp: the operation, the bearer value it
\* carried, the user it was authenticated as, the user id or event id it named
\* (for me: the user returned), its success, and the token login returned
Response(op, token, user, userId, eventId, ok, issued) ==
  [op |-> op, token |-> token, user |-> user, userId |-> userId,
   eventId |-> eventId, ok |-> ok, issued |-> issued]

\* GraphQL createUser.  Every user id has its own email; a removed user's id is
\* not given to a new row.
createUser(userId) ==
  /\ users[userId].state = "none"
  /\ users' = [users EXCEPT ![userId] =
                 [state |-> "stored", password |-> Password, token |-> NoToken]]
  /\ rsp' = Response("createUser", NoToken, NoUser, userId, 0, TRUE, NoToken)
  /\ UNCHANGED <<events, schedules, appointments, q, eng, signup, tokens>>

\* GraphQL login: a fresh random token replaces the user's token
login(userId, password) ==
  LET found == users[userId].state = "stored" /\ users[userId].password = password
      token == Len(tokens) + 1
  IN  /\ found => Len(tokens) < MaxLogins
      /\ users' = IF found THEN [users EXCEPT ![userId].token = token] ELSE users
      /\ tokens' = IF found
                     THEN Append([t \in 1..Len(tokens) |->
                                    IF tokens[t].user = userId /\ tokens[t].ended = "no"
                                      THEN [tokens[t] EXCEPT !.ended = "login"]
                                      ELSE tokens[t]],
                                 [user |-> userId, ended |-> "no"])
                     ELSE tokens
      /\ rsp' = Response("login", NoToken, NoUser, userId, 0, found,
                         IF found THEN token ELSE NoToken)
      /\ UNCHANGED <<events, schedules, appointments, q, eng, signup>>

logoutKeepingToken(token, public) ==
  LET a == authMiddleware(token, public)
      done == a.next /\ a.user # NoUser
  IN  /\ token \in ClientTokens
      /\ users' = users
      /\ tokens' = IF done THEN [tokens EXCEPT ![token].ended = "logout"] ELSE tokens
      /\ rsp' = Response("logout", token, a.user, a.user, 0, done, NoToken)
      /\ UNCHANGED <<events, schedules, appointments, q, eng, signup>>

\* GraphQL logout: UPDATE users SET token = NULL WHERE token = context.user.token
logout(token, public) ==
  LET a == authMiddleware(token, public)
      done == a.next /\ a.user # NoUser
  IN  /\ token \in ClientTokens
      /\ users' = IF done
                    THEN [u \in Users |->
                            IF users[u].state = "stored" /\ users[u].token = token
                              THEN [users[u] EXCEPT !.token = NoToken]
                              ELSE users[u]]
                    ELSE users
      /\ tokens' = IF done THEN [tokens EXCEPT ![token].ended = "logout"] ELSE tokens
      /\ rsp' = Response("logout", token, a.user, a.user, 0, done, NoToken)
      /\ UNCHANGED <<events, schedules, appointments, q, eng, signup>>

\* GraphQL me: checkAuth(context), then the user of the context
me(token, public) ==
  LET a == authMiddleware(token, public)
  IN  /\ token \in ClientTokens
      /\ rsp' = Response("me", token, a.user, a.user, 0,
                         a.next /\ a.user # NoUser, NoToken)
      /\ UNCHANGED <<events, schedules, appointments, q, eng, signup, users, tokens>>

\* REST DELETE /users/:userId
restDeleteUser(token, userId) ==
  LET a == auth(token)
      done == a.next /\ restCheckOwnership(userId, a.user)
                     /\ users[userId].state = "stored"
  IN  /\ token \in ClientTokens
      /\ users' = IF done
                    THEN [users EXCEPT ![userId] =
                            [state |-> "deleted", password |-> Null, token |-> NoToken]]
                    ELSE users
      /\ rsp' = Response("restDeleteUser", token, a.user, userId, 0, done, NoToken)
      /\ UNCHANGED <<events, schedules, appointments, q, eng, signup, tokens>>

\* GraphQL deleteUser.  The resolver calls the async checkOwnership without
\* await: a failed check is a rejected promise nobody handles, and the
\* resolver goes on to its SELECT and DELETE.  What an unhandled rejection
\* does depends on the runtime and its flags: with survives the process only
\* reports it and the resolver completes; otherwise the process ends before
\* the DELETE is issued and the request is not answered.  A user that is no
\* longer stored counts as deleted.
gqlDeleteUser(token, public, userId, survives) ==
  LET a == authMiddleware(token, public)
      owner == a.user # NoUser /\ a.user = userId
      done == a.next /\ (owner \/ survives)
  IN  /\ token \in ClientTokens
      /\ users' = IF done /\ users[userId].state = "stored"
                    THEN [users EXCEPT ![userId] =
                            [state |-> "deleted", password |-> Null, token |-> NoToken]]
                    ELSE users
      /\ rsp' = Response("deleteUser", token, a.user, userId, 0, done, NoToken)
      /\ UNCHANGED <<events, schedules, appointments, q, eng, signup, tokens>>

\* GraphQL createSchedule
gqlCreateSchedule(token, public, userId, availability) ==
  LET a == authMiddleware(token, public)
      done == a.next /\ checkOwnership(userId, a.user)
  IN  /\ token \in ClientTokens
      /\ done => Len(schedules) < MaxSchedRows
      /\ schedules' = IF done
                        THEN Append(schedules,
                                    [userId |-> userId,
                                     availability |-> JSONstringify(availability)])
                        ELSE schedules
      /\ rsp' = Response("createSchedule", token, a.user, userId, 0, done, NoToken)
      /\ UNCHANGED <<events, appointments, q, eng, signup, users, tokens>>

\* UPDATE schedules SET availability = ? WHERE userId = ?
UpdateSchedules(userId, availability) ==
  [i \in 1..Len(schedules) |->
     IF schedules[i].userId = userId
       THEN [schedules[i] EXCEPT !.availability = JSONstringify(availability)]
       ELSE schedules[i]]

\* DELETE FROM schedules WHERE userId = ?
DeleteSchedules(userId) ==
  RowsAt(schedules, {i \in 1..Len(schedules) : schedules[i].userId # userId})

\* GraphQL updateSchedule
gqlUpdateSchedule(token, public, userId, availability) ==
  LET a == authMiddleware(token, public)
      done == a.next /\ checkOwnership(userId, a.user) /\ HasSchedule(userId)
  IN  /\ token \in ClientTokens
      /\ schedules' = IF done THEN UpdateSchedules(userId, availability) ELSE schedules
      /\ rsp' = Response("updateSchedule", token, a.user, userId, 0, done, NoToken)
      /\ UNCHANGED <<events, appointments, q, eng, signup, users, tokens>>

\* GraphQL deleteSchedule: true for the owner, also when no row is left
gqlDeleteSchedule(token, public, userId) ==
  LET a == authMiddleware(token, public)
      done == a.next /\ checkOwnership(userId, a.user)
  IN  /\ token \in ClientTokens
      /\ schedules' = IF done THEN DeleteSchedules(userId) ELSE schedules
      /\ rsp' = Response("deleteSchedule", token, a.user, userId, 0, done, NoToken)
      /\ UNCHANGED <<events, appointments, q, eng, signup, users, tokens>>

\* REST POST /schedules: userId !== authenticatedUserId is answered 403
restPostSchedule(token, userId, availability) ==
  LET a == auth(token)
      done == a.next /\ userId = a.user
  IN  /\ token \in ClientTokens
      /\ done => Len(schedules) < MaxSchedRows
      /\ schedules' = IF done
                        THEN Append(schedules,
                                    [userId |-> userId,
                                     availability |-> JSONstringify(availability)])
                        ELSE schedules
      /\ rsp' = Response("restPostSchedule", token, a.user, userId, 0, done, NoToken)
      /\ UNCHANGED <<events, appointments, q, eng, signup, users, tokens>>

\* REST PATCH /schedules/:userId
restPatchSchedule(token, userId, availability) ==
  LET a == auth(token)
      done == a.next /\ restCheckOwnership(userId, a.user) /\ HasSchedule(userId)
  IN  /\ token \in ClientTokens
      /\ schedules' = IF done THEN UpdateSchedules(userId, availability) ELSE schedules
      /\ rsp' = Response("restPatchSchedule", token, a.user, userId, 0, done, NoToken)
      /\ UNCHANGED <<events, appointments, q, eng, signup, users, tokens>>

\* REST DELETE /schedules/:userId: 404 when no row was removed
restDeleteSchedule(token, userId) ==
  LET a == auth(token)
      done == a.next /\ restCheckOwnership(userId, a.user) /\ HasSchedule(userId)
  IN  /\ token \in ClientTokens
      /\ schedules' = IF done THEN DeleteSchedules(userId) ELSE schedules
      /\ rsp' = Response("restDeleteSchedule", token, a.user, userId, 0, done, NoToken)
      /\ UNCHANGED <<events, appointments, q, eng, signup, users, tokens>>

\* GraphQL createEvent
gqlCreateEvent(token, public) ==
  LET a == authMiddleware(token, public)
      done == a.next /\ a.user # NoUser
  IN  /\ token \in ClientTokens
      /\ done => Len(events) < MaxEvents
      /\ events' = IF done THEN Append(events, EventRow(a.user)) ELSE events
      /\ rsp' = Response("createEvent", token, a.user, a.user,
                         IF done THEN Len(events) + 1 ELSE 0, done, NoToken)
      /\ UNCHANGED <<schedules, appointments, q, eng, signup, users, tokens>>

\* checkEventOwnership, of the GraphQL resolvers and of the REST routes alike:
\* the event is stored and its userId is the authenticated user's id
checkEventOwnership(eventId, user) ==
  user # NoUser /\ Stored(events, eventId) /\ events[eventId].userId = user

\* REST DELETE /events/:eventId
restDeleteEvent(token, eventId) ==
  LET a == auth(token)
      done == a.next /\ checkEventOwnership(eventId, a.user)
  IN  /\ token \in ClientTokens
      /\ events' = IF done
                     THEN [events EXCEPT ![eventId].live = FALSE,
                                         ![eventId].removedBy = "REST"]
                     ELSE events
      /\ rsp' = Response("restDeleteEvent", token, a.user, NoUser, eventId, done, NoToken)
      /\ UNCHANGED <<schedules, appointments, q, eng, signup, users, tokens>>

\* GraphQL deleteEvent: false unless checkEventOwnership authorizes, then
\* result.changes > 0
gqlDeleteEvent(token, public, eventId) ==
  LET a == authMiddleware(token, public)
      done == a.next /\ checkEventOwnership(eventId, a.user)
  IN  /\ token \in ClientTokens
      /\ events' = IF done
                     THEN [events EXCEPT ![eventId].live = FALSE,
                                         ![eventId].removedBy = "GraphQL"]
                     ELSE events
      /\ rsp' = Response("deleteEvent", token, a.user, NoUser, eventId, done, NoToken)
      /\ UNCHANGED <<schedules, appointments, q, eng, signup, users, tokens>>

\* Accounts and sessions
NextSessions ==
  \/ \E userId \in Users : createUser(userId)
  \/ \E userId \in Users, password \in ClientPasswords : login(userId, password)
  \/ \E token \in BearerValues, public \in BOOLEAN : logout(token, public)
  \/ \E token \in BearerValues, public \in BOOLEAN : me(token, public)
  \/ \E token \in BearerValues, userId \in Users : restDeleteUser(token, userId)
  \/ \E token \in BearerValues, public \in BOOLEAN, userId \in Users,
        survives \in BOOLEAN :
       gqlDeleteUser(token, public, userId, survives)

SpecSessions == Init /\ [][NextSessions]_vars

\* Signed-in users and the schedule requests of both APIs
NextSchedules ==
  \/ \E userId \in Users : createUser(userId)
  \/ \E userId \in Users, password \in ClientPasswords : login(userId, password)
  \/ \E token \in BearerValues, public \in BOOLEAN, userId \in Users,
        availability \in ClientAvailabilities :
       gqlCreateSchedule(token, public, userId, availability)
  \/ \E token \in BearerValues, public \in BOOLEAN, userId \in Users,
        availability \in ClientAvailabilities :
       gqlUpdateSchedule(token, public, userId, availability)
  \/ \E token \in BearerValues, public \in BOOLEAN, userId \in Users :
       gqlDeleteSchedule(token, public, userId)
  \/ \E token \in BearerValues, userId \in Users,
        availability \in ClientAvailabilities :
       restPostSchedule(token, userId, availability)
  \/ \E token \in BearerValues, userId \in Users,
        availability \in ClientAvailabilities :
       restPatchSchedule(token, userId, availability)
  \/ \E token \in BearerValues, userId \in Users : restDeleteSchedule(token, userId)

SpecSchedules == Init /\ [][NextSchedules]_vars

\* Signed-in users and the event requests of both APIs
NextEvents ==
  \/ \E userId \in Users : createUser(userId)
  \/ \E userId \in Users, password \in ClientPasswords : login(userId, password)
  \/ \E token \in BearerValues, public \in BOOLEAN : gqlCreateEvent(token, public)
  \/ \E token \in BearerValues, eventId \in 1..MaxEvents : restDeleteEvent(token, eventId)
  \/ \E token \in BearerValues, public \in BOOLEAN, eventId \in 1..MaxEvents :
       gqlDeleteEvent(token, public, eventId)

SpecEvents == Init /\ [][NextEvents]_vars

-----------------------------------------------------------------------------
(* Vocabulary of the properties *)

\* The overlap of a slot and an appointment as the specification defines it
Overlaps(slot, appointment) ==
  slot.start < appointment.endTime /\ slot.end > appointment.startTime

\* Ids of the appointments of userId that are in the table
LiveOf(userId) ==
  {i \in 1..Len(appointments) : appointments[i].live /\ appointments[i].userId = userId}

\* Ids of the appointments of userId that deleteAppointment has removed
DeletedOf(userId) ==
  {i \in 1..Len(appointments) : ~appointments[i].live /\ appointments[i].userId = userId}

Answered == q.phase = "done" /\ q.ok

SlotIds == 1..Len(q.slots)

\* The request's range covers the appointment
Covers(startDate, endDate, appointment) ==
  appointment.startTime >= startDate /\ appointment.endTime <= endDate

Without(table, id) == [table EXCEPT ![id].live = FALSE]

Returned == eng.pc = "return"

EngineSlotIds == 1..Len(eng.slots)

\* Calendar days from startDate's through endDate's
RangeDays(startDate, endDate) == DayOf(startDate)..DayOf(endDate)

DayName(day) == daysOfWeek[getDay(day * MinutesPerDay) + 1]

\* The day-entry the engine uses for a calendar day, 0 when there is none
EntryFor(entries, day) == FindDay(entries, DayName(day))

\* The entries of a list whose day name is the weekday name of a calendar day,
\* letter case ignored
Matching(entries, day) ==
  {j \in 1..Len(entries) : toLowerCase(entries[j].day) = toLowerCase(DayName(day))}

\* The days the engine visited, and the days it returned a slot on
VisitedDays == {DayOf(eng.visited[i]) : i \in 1..Len(eng.visited)}
SlotDays == {DayOf(eng.slots[k].start) : k \in EngineSlotIds}

\* A day-entry's window on a calendar day holds at least one whole slot
HasRoom(entry, day) ==
  WindowStart(day * MinutesPerDay, entry) + 30 <= WindowEnd(day * MinutesPerDay, entry)

\* The whole 30-minute intervals that tile [windowStart, windowEnd) from
\* windowStart on, as (start, end) pairs
Tiles(windowStart, windowEnd) ==
  {<<windowStart + (30 * n), windowStart + (30 * n) + 30>> :
     n \in {m \in 0..47 : windowStart + (30 * m) + 30 <= windowEnd}}

\* The (start, end) pairs of the slots the engine returned on a calendar day
SlotsOn(day) ==
  {<<eng.slots[k].start, eng.slots[k].end>> :
     k \in {l \in EngineSlotIds : DayOf(eng.slots[l].start) = day}}

\* The slots the engine returned on a calendar day, in the order returned
SlotSeqOn(day) ==
  LET OnDay(slot) == DayOf(slot.start) = day
  IN  SelectSeq(eng.slots, OnDay)

\* The tiles of the window of entry on a calendar day
TilesOf(entry, day) ==
  Tiles(WindowStart(day * MinutesPerDay, entry), WindowEnd(day * MinutesPerDay, entry))

\* The rows of a schedules table that carry userId, in table order
RowsOf(table, userId) ==
  RowsAt(table, {i \in 1..Len(table) : table[i].userId = userId})

ScheduleOps ==
  {"createSchedule", "updateSchedule", "deleteSchedule",
   "restPostSchedule", "restPatchSchedule", "restDeleteSchedule"}

-----------------------------------------------------------------------------
(* Properties of the availableSlots query, specification Spec *)

\* C1: in every answer, a slot is returned with available = FALSE exactly when
\* it overlaps some stored appointment of the queried user whose status is not
\* "canceled", wherever that appointment lies relative to the requested range.
C1_ConflictCorrectness ==
  Answered =>
    \A k \in SlotIds :
      (~q.slots[k].available) <=>
        (\E i \in LiveOf(q.userId) :
           /\ appointments[i].status # "canceled"
           /\ Overlaps(q.slots[k], appointments[i]))

\* C2: an appointment with status "canceled" never makes a slot unavailable:
\* the outcome of the query equals its outcome on the table without that
\* appointment, and every unavailable slot conflicts with an appointment of
\* the queried user whose status is not "canceled".
C2_CanceledExcluded ==
  (q.phase = "done" /\ q.availability # NoAvailability) =>
    /\ \A i \in 1..Len(appointments) :
         (appointments[i].live /\ appointments[i].status = "canceled") =>
           q = Answer(q.userId, q.startDate, q.endDate, q.availability,
                      Without(appointments, i))
    /\ \A k \in SlotIds :
         (~q.slots[k].available) =>
           (\E i \in LiveOf(q.userId) :
              /\ appointments[i].status # "canceled"
              /\ isConflicting(q.slots[k], appointments[i]))

\* C2 witness: an answer whose range covers a "canceled" appointment of the
\* queried user, with a returned slot that overlaps it and is available.
C2_Witness ==
  /\ Answered
  /\ \E i \in LiveOf(q.userId), k \in SlotIds :
       /\ appointments[i].status = "canceled"
       /\ Covers(q.startDate, q.endDate, appointments[i])
       /\ Overlaps(q.slots[k], appointments[i])
       /\ q.slots[k].available

\* C3: once an update has set an appointment's status to "cancelled", a slot
\* that overlaps that appointment and no other appointment of the user is
\* returned with available = TRUE.
C3_CancelledExcluded ==
  Answered =>
    \A k \in SlotIds : \A i \in LiveOf(q.userId) :
      ( /\ appointments[i].status = "cancelled"
        /\ Overlaps(q.slots[k], appointments[i])
        /\ \A j \in LiveOf(q.userId) \ {i} :
             /\ ~Overlaps(q.slots[k], appointments[j])
             /\ ~isConflicting(q.slots[k], appointments[j]) )
      => q.slots[k].available

\* C8: every answer reflects the table as it is at the call: each slot that
\* overlaps a stored, scheduled appointment of the user which the range covers
\* is unavailable, and each slot that overlaps a deleted appointment of the
\* user, and no stored appointment of the user, is available.
C8_Freshness ==
  Answered =>
    /\ \A i \in LiveOf(q.userId) : \A k \in SlotIds :
         ( /\ appointments[i].status = "scheduled"
           /\ Covers(q.startDate, q.endDate, appointments[i])
           /\ Overlaps(q.slots[k], appointments[i]) )
         => ~q.slots[k].available
    /\ \A d \in DeletedOf(q.userId) : \A k \in SlotIds :
         ( /\ Overlaps(q.slots[k], appointments[d])
           /\ \A j \in LiveOf(q.userId) : ~Overlaps(q.slots[k], appointments[j]) )
         => q.slots[k].available

\* C9: a failed query tells the caller what failed: the message the caller
\* receives is the "no schedule" message when no schedule row exists and the
\* "invalid format" message when the stored availability does not parse.
C9_ErrorsByKind ==
  (q.phase = "done" /\ ~q.ok) =>
    /\ (q.thrown = NoScheduleMessage => q.message = NoScheduleMessage)
    /\ (q.thrown = InvalidFormatMessage => q.message = InvalidFormatMessage)

-----------------------------------------------------------------------------
(* Properties of the engine, specification SpecEngine *)

\* C4: for startDate <= endDate the engine visits every calendar day from
\* startDate's through endDate's, and a day-entry matching one of these days,
\* with room for a slot, contributes a slot on that day.
C4_InclusiveDayWalk ==
  (Returned /\ ~eng.threw /\ eng.startDate <= eng.endDate) =>
    /\ {DayOf(eng.visited[i]) : i \in 1..Len(eng.visited)}
         = RangeDays(eng.startDate, eng.endDate)
    /\ \A day \in RangeDays(eng.startDate, eng.endDate) :
         LET entries == eng.availability.entries
             i == EntryFor(entries, day)
             date == day * MinutesPerDay
         IN  ( /\ i # 0
               /\ WindowStart(date, entries[i]) + 30 <= WindowEnd(date, entries[i]) )
             => \E k \in EngineSlotIds : DayOf(eng.slots[k].start) = day

\* C5: every returned slot has start < end and lasts exactly 30 minutes.
C5_SlotDuration ==
  Returned =>
    \A k \in EngineSlotIds :
      /\ eng.slots[k].start < eng.slots[k].end
      /\ eng.slots[k].end - eng.slots[k].start = 30

\* C5 witness: slots were returned for a day whose window is not a whole
\* number of slots long.
C5_Witness ==
  /\ Returned
  /\ \E k \in EngineSlotIds :
       LET entries == eng.availability.entries
           i == EntryFor(entries, DayOf(eng.slots[k].start))
           date == eng.slots[k].start
       IN  /\ i # 0
           /\ (WindowEnd(date, entries[i]) - WindowStart(date, entries[i])) % 30 # 0

\* C6: every returned slot lies inside the window of the day-entry that
\* produced it, on the slot's calendar day, and is a whole slot: a trailing
\* candidate that would pass the window's end is neither returned nor cut.
C6_InsideWindow ==
  Returned =>
    \A k \in EngineSlotIds :
      LET entries == eng.availability.entries
          i == EntryFor(entries, DayOf(eng.slots[k].start))
          date == eng.slots[k].start
      IN  /\ i # 0
          /\ eng.slots[k].start >= WindowStart(date, entries[i])
          /\ eng.slots[k].end <= WindowEnd(date, entries[i])
          /\ eng.slots[k].end = eng.slots[k].start + 30

\* C6 witness: a returned slot after which the window has room left, but not
\* for another whole slot.
C6_Witness ==
  /\ Returned
  /\ \E k \in EngineSlotIds :
       LET entries == eng.availability.entries
           i == EntryFor(entries, DayOf(eng.slots[k].start))
           left == WindowEnd(eng.slots[k].start, entries[i]) - eng.slots[k].end
       IN  i # 0 /\ left > 0 /\ left < 30

\* C7: the returned sequence is chronological and no two of its slots
\* overlap: each slot ends at or before the start of every later one.
C7_OrderedDisjoint ==
  Returned =>
    \A k \in EngineSlotIds : \A l \in EngineSlotIds :
      k < l => eng.slots[k].end <= eng.slots[l].start

\* C7 witness: a result with two slots on one day and a slot on a later day.
C7_Witness ==
  /\ Returned
  /\ \E k \in EngineSlotIds : \E l \in EngineSlotIds : \E m \in EngineSlotIds :
       /\ k < l /\ l < m
       /\ DayOf(eng.slots[k].start) = DayOf(eng.slots[l].start)
       /\ DayOf(eng.slots[l].start) < DayOf(eng.slots[m].start)

\* C10: with startDate later than endDate the engine returns the empty
\* sequence and throws nothing.
C10_InvalidRangeEmpty ==
  (Returned /\ eng.startDate > eng.endDate) =>
    (~eng.threw /\ eng.slots = <<>>)

\* C10 witness: an invalid range whose first day has a day-entry with room for
\* slots, with appointments supplied; and one with an availability value that
\* is not an array.
C10_Witness ==
  /\ Returned
  /\ eng.startDate > eng.endDate
  /\ eng.appointments # <<>>
  /\ LET entries == eng.availability.entries
         i == EntryFor(entries, DayOf(eng.startDate))
     IN  /\ i # 0
         /\ WindowStart(eng.startDate, entries[i]) + 30
              <= WindowEnd(eng.startDate, entries[i])

C12_DayLookup ==
  (Returned /\ ~eng.threw) =>
    /\ \A day \in VisitedDays :
         (day \in SlotDays) <=> (Matching(eng.availability.entries, day) # {})
    /\ (eng.availability.entries = <<>>) => (eng.slots = <<>>)

\* C12 amended: a visited calendar day contributes slots exactly when some
\* entry's day name equals the day's weekday name, letter case ignored, and the
\* window of the first such entry holds at least one whole 30-minute slot; a
\* day with no matching entry contributes none, and an empty availability list
\* yields an empty result.
C12_DayLookupWithRoom ==
  (Returned /\ ~eng.threw) =>
    /\ \A day \in VisitedDays :
         LET entries == eng.availability.entries
             hits == Matching(entries, day)
         IN  (day \in SlotDays) <=>
               ( /\ hits # {}
                 /\ HasRoom(entries[CHOOSE j \in hits : \A l \in hits : j <= l], day) )
    /\ SlotDays \subseteq VisitedDays
    /\ (eng.availability.entries = <<>>) => (eng.slots = <<>>)

\* C12 witness: a result with a visited day whose only matching entry is spelt
\* in another letter case and contributes a slot, and a visited day whose
\* matching entry has no room for a slot and contributes none.
C12_Witness ==
  /\ Returned /\ ~eng.threw
  /\ \E day \in VisitedDays :
       LET hits == Matching(eng.availability.entries, day)
       IN  /\ day \in SlotDays
           /\ \A j \in hits : eng.availability.entries[j].day # DayName(day)
  /\ \E day \in VisitedDays :
       /\ day \notin SlotDays
       /\ Matching(eng.availability.entries, day) # {}

\* C21: every returned slot lies inside the requested range: it starts at or
\* after startDate and ends at or before endDate, also when startDate or
\* endDate falls inside a day-entry's window.
C21_RangeBoundsSlots ==
  Returned =>
    \A k \in EngineSlotIds :
      /\ eng.slots[k].start >= eng.startDate
      /\ eng.slots[k].end <= eng.endDate

\* C23: the engine's verdict on a slot is the overlap test's: a returned slot
\* is unavailable exactly when slotStart < apptEnd and slotEnd > apptStart for
\* some supplied appointment, also for an appointment of length zero and for
\* one that touches a slot boundary.
C23_ConflictIsOverlap ==
  Returned =>
    \A k \in EngineSlotIds :
      (~eng.slots[k].available) <=>
        (\E i \in 1..Len(eng.appointments) :
           Overlaps(eng.slots[k], eng.appointments[i]))

\* C24: on a visited calendar day for which the availability list holds two
\* or more entries, the returned slots of that day are the tiles of the first
\* of these entries in list order; a tile of a later entry that is not a tile of
\* the first is not returned.
C24_FirstMatchOnly ==
  (Returned /\ ~eng.threw) =>
    \A day \in VisitedDays :
      LET entries == eng.availability.entries
          hits == Matching(entries, day)
          first == CHOOSE j \in hits : \A l \in hits : j <= l
      IN  Cardinality(hits) >= 2 =>
            /\ SlotsOn(day) = TilesOf(entries[first], day)
            /\ \A j \in hits \ {first} :
                 (TilesOf(entries[j], day) \ TilesOf(entries[first], day))
                   \cap SlotsOn(day) = {}

\* C24 witness: a visited day with two entries, the first of which gave a
\* slot, and the second of which has a tile that the first has not.
C24_Witness ==
  /\ Returned /\ ~eng.threw
  /\ \E day \in VisitedDays :
       LET entries == eng.availability.entries
           hits == Matching(entries, day)
           first == CHOOSE j \in hits : \A l \in hits : j <= l
       IN  /\ Cardinality(hits) >= 2
           /\ SlotsOn(day) # {}
           /\ \E j \in hits \ {first} :
                TilesOf(entries[j], day) \ TilesOf(entries[first], day) # {}

\* C25: for a visited day whose first matching entry has the window [s, e)
\* with s < e, the engine returns floor((e - s) / 30) slots of that day, the
\* k-th (from 0) being [s + 30k, s + 30k + 30]; for the window 09:00-12:00,
\* one visited Monday and no appointment these are 6 slots, all available.
C25_TilingCount ==
  (Returned /\ ~eng.threw) =>
    /\ \A day \in VisitedDays :
         LET entries == eng.availability.entries
             hits == Matching(entries, day)
             first == CHOOSE j \in hits : \A l \in hits : j <= l
             s == WindowStart(day * MinutesPerDay, entries[first])
             e == WindowEnd(day * MinutesPerDay, entries[first])
             daySlots == SlotSeqOn(day)
         IN  (hits # {} /\ s < e) =>
               /\ Len(daySlots) = (e - s) \div 30
               /\ \A k \in 1..Len(daySlots) :
                    /\ daySlots[k].start = s + (30 * (k - 1))
                    /\ daySlots[k].end = daySlots[k].start + 30
    /\ ( /\ eng.availability = ArrayOf(<<Entry("monday", "09:00", "12:00")>>)
         /\ eng.appointments = <<>>
         /\ VisitedDays = {0} )
       => /\ Len(eng.slots) = 6
          /\ \A k \in EngineSlotIds : eng.slots[k].available

\* C25 witness: the window 09:00-12:00 on one visited Monday with no
\* appointment, and six slots returned.
C25_Witness ==
  /\ Returned /\ ~eng.threw
  /\ eng.availability = ArrayOf(<<Entry("monday", "09:00", "12:00")>>)
  /\ eng.appointments = <<>>
  /\ VisitedDays = {0}
  /\ Len(eng.slots) = 6

-----------------------------------------------------------------------------
(* Termination of the engine, specification SpecLoops *)

\* The first matching entry of the day of date is a window that does not end
\* after it starts
InvertedOn(entries, date) ==
  LET i == FindDay(entries, daysOfWeek[getDay(date) + 1])
  IN  i # 0 /\ WindowEnd(date, entries[i]) <= WindowStart(date, entries[i])

\* C22: every call of the engine ends; on a list of day-entries it ends
\* without throwing and returns a finite sequence, the one
\* calculateAvailableSlots denotes; and while the slot loop runs on a day whose
\* entry does not end after it starts it collects no slot.
C22_Terminates ==
  /\ (eng.pc = "call") ~> (eng.pc = "return")
  /\ []((eng.pc = "return" /\ eng.availability.shape = "array") =>
          /\ ~eng.threw
          /\ eng.slots = calculateAvailableSlots(eng.availability,
                                                 eng.appointments,
                                                 eng.startDate, eng.endDate).slots)
  /\ []((eng.pc = "slot" /\ InvertedOn(eng.availability.entries, eng.currentDate))
          => eng.daySlots = <<>>)

\* C22 witness: a call has returned after walking two days, one of them with
\* an entry that ends before it starts, and with slots of the other day.
C22_Witness ==
  /\ eng.pc = "return"
  /\ ~eng.threw
  /\ Len(eng.visited) > 1
  /\ eng.slots # <<>>
  /\ \E i \in 1..Len(eng.visited) :
       InvertedOn(eng.availability.entries, eng.visited[i])

-----------------------------------------------------------------------------
(* Frame and input contract of the availableSlots query, specification Spec *)

\* An appointment's interval and the requested range have an instant in common
Intersects(appointment, startDate, endDate) ==
  appointment.startTime < endDate /\ appointment.endTime > startDate

\* C19: the appointment list the request hands to the engine holds every
\* stored, not canceled appointment of the queried user whose interval
\* intersects the requested range, also one that starts before startDate or
\* ends after endDate, and holds no appointment of another user.
C19_InputContract ==
  (q.phase = "done" /\ q.called) =>
    /\ \A i \in LiveOf(q.userId) :
         ( /\ appointments[i].status # "canceled"
           /\ Intersects(appointments[i], q.startDate, q.endDate) )
         => \E k \in 1..Len(q.handed) : q.handed[k] = appointments[i]
    /\ \A k \in 1..Len(q.handed) : q.handed[k].userId = q.userId

\* C26: a request for a user whose stored schedule has the shape the example
\* client sends, an object with a list of {start, end} per day name, and whose
\* range starts on a listed day, succeeds and returns slots.
C26_DataModelShapeUsable ==
  ( /\ q.phase = "done"
    /\ q.availability = ObjectAvailability
    /\ q.startDate <= q.endDate )
  => (q.ok /\ q.slots # <<>>)

\* C27: the outcome of every request is the outcome its two reads would have
\* had on the schedules and appointments stored at one moment of the call,
\* whatever other callers wrote between the two reads.
C27_SnapshotConsistency ==
  (q.phase = "done" /\ q.called) => Outcome(q) \in q.atomic

\* C13: every step of an availableSlots request, successful or failing, leaves
\* the stored users, schedules, events and appointments as they were.
C13_ReadOnly ==
  [][(q' # q) => UNCHANGED <<users, events, schedules, appointments>>]_vars

\* C13 witness: a request has been answered with slots while schedules,
\* events and appointments were stored.
C13_Witness ==
  /\ Answered
  /\ q.slots # <<>>
  /\ schedules # <<>>
  /\ events # <<>>
  /\ appointments # <<>>

-----------------------------------------------------------------------------
(* Properties of schedule ownership, specification SpecSchedules *)

\* C14: after any sequence of schedule requests, GraphQL or REST, the table
\* schedules holds at most one row per userId.
C14_OneSchedulePerUser ==
  \A u \in Users : Cardinality(ScheduleRows(u)) <= 1

\* C15: a step that creates, changes or deletes a schedule row with userId U
\* is a schedule request authenticated as U; a request authenticated as
\* another user, or not authenticated, leaves every row of U as it was.
C15_OwnerOnly ==
  [][\A u \in Users :
       (RowsOf(schedules', u) # RowsOf(schedules, u)) =>
         (rsp'.op \in ScheduleOps /\ rsp'.user = u /\ rsp'.userId = u)]_vars

\* C15 witness: a schedule request naming a user who has a schedule was served
\* for a signed-in other user and was refused.
C15_Witness ==
  /\ rsp.op \in ScheduleOps
  /\ rsp.user \in Users
  /\ rsp.userId \in Users \ {rsp.user}
  /\ HasSchedule(rsp.userId)
  /\ ~rsp.ok

-----------------------------------------------------------------------------
(* Properties of sessions, specification SpecSessions *)

\* C16: a me request that carries a token login returned to user U, while U
\* has neither logged out nor logged in again, is authenticated as U and
\* returns U.
C16_TokenAuthenticates ==
  ( /\ rsp.op = "me"
    /\ rsp.token \in 1..Len(tokens)
    /\ tokens[rsp.token].ended = "no" )
  => ( /\ rsp.ok
       /\ rsp.user = tokens[rsp.token].user
       /\ rsp.userId = tokens[rsp.token].user )

\* C17: once logout has succeeded for a request bearing token t, no request
\* bearing t is authenticated as any user: each is refused.
C17_LogoutInvalidates ==
  ( /\ rsp.token \in 1..Len(tokens)
    /\ tokens[rsp.token].ended = "logout"
    /\ ~(rsp.op = "logout" /\ rsp.ok) )
  => (rsp.user = NoUser /\ ~rsp.ok)

\* C17 witness: a me request bearing a token that logout ended was served
\* after the token's user had logged in again.
C17_Witness ==
  /\ rsp.op = "me"
  /\ rsp.token \in 1..Len(tokens)
  /\ tokens[rsp.token].ended = "logout"
  /\ users[tokens[rsp.token].user].token # NoToken

-----------------------------------------------------------------------------
(* Properties of event deletion, specification SpecEvents *)

\* C18: once DELETE /events/:id has removed an event owned by user U, a
\* GraphQL deleteEvent of that id in a request authenticated as U returns true
\* and changes no stored data.
C18_DeleteAfterRestDelete ==
  [][\A id \in 1..Len(events) :
       ( /\ ~events[id].live
         /\ events[id].removedBy = "REST"
         /\ rsp'.op = "deleteEvent"
         /\ rsp'.eventId = id
         /\ rsp'.user = events[id].userId )
       => ( /\ rsp'.ok
            /\ UNCHANGED <<users, events, schedules, appointments>> )]_vars

-----------------------------------------------------------------------------
(* Order of failure and engine call, specification SpecStored *)

\* The row the request of q read at line 18 is missing, or its text does not
\* parse
NoParsedModel(userId) ==
  \/ ~HasSchedule(userId)
  \/ JSONparse(SelectSchedule(userId).availability).threw

\* C20: when the schedule row of the queried user is missing or its
\* availability text does not parse, the request has failed, with the
\* message of that case, without calling calculateAvailableSlots; whenever
\* calculateAvailableSlots was called, the row existed, its text parsed, and
\* the parsed value is the availability the engine was given.
C20_FailsBeforeEngine ==
  /\ (q.phase = "done" /\ NoParsedModel(q.userId)) =>
       /\ ~q.called
       /\ ~q.ok
       /\ q.thrown = IF HasSchedule(q.userId) THEN InvalidFormatMessage
                                              ELSE NoScheduleMessage
  /\ q.called =>
       /\ ~NoParsedModel(q.userId)
       /\ q.availability = JSONparse(SelectSchedule(q.userId).availability).value

\* A request has failed on a stored text that does not parse
C20_Witness ==
  /\ q.phase = "done"
  /\ HasSchedule(q.userId)
  /\ JSONparse(SelectSchedule(q.userId).availability).threw
  /\ q.thrown = InvalidFormatMessage
  /\ ~q.called

-----------------------------------------------------------------------------
(* Deletion of users, specification SpecSessions *)

\* C28: a GraphQL deleteUser request naming user U that is not authenticated
\* as U, be it authenticated as another user or let through without a user by
\* the public-operation check, leaves the table users as it was.
C28_DeleteOwnUserOnly ==
  [][(rsp'.op = "deleteUser" /\ rsp'.user # rsp'.userId) => users' = users]_vars

-----------------------------------------------------------------------------
(* Appointments and their events, specification SpecAppointments *)

\* C29: after any sequence of GraphQL createAppointment, updateAppointment
\* and deleteEvent requests, every stored appointment's eventId is the id of a
\* stored event whose userId is the appointment's userId; and no step changes
\* the userId of an appointment.
C29_AppointmentEventOwnership ==
  /\ [](\A i \in 1..Len(appointments) :
          appointments[i].live =>
            /\ Stored(events, appointments[i].eventId)
            /\ events[appointments[i].eventId].userId = appointments[i].userId)
  /\ [][\A i \in 1..Len(appointments) :
          appointments'[i].userId = appointments[i].userId]_vars

-----------------------------------------------------------------------------
(* Uniqueness of emails, specification SpecSignup *)

\* The createUser requests that carried the email and returned a User
Created(email) ==
  {r \in SignupRequests : /\ signup.requests[r].email = email
                          /\ signup.requests[r].result = "User"}

\* The rows the request inserted
RowsBy(r) == {i \in 1..Len(signup.rows) : signup.rows[i].by = r}

\* C30: in every interleaving of createUser requests, two of which may both
\* pass the existence check for one email before either inserts, no two user
\* rows share an email, at most one request per email returns a User, a
\* request that returns an Error has inserted no row, and a request that has
\* ended returned a User or an Error.
C30_EmailUnique ==
  /\ \A i, j \in 1..Len(signup.rows) :
       signup.rows[i].email = signup.rows[j].email => i = j
  /\ \A email \in ClientEmails : Cardinality(Created(email)) <= 1
  /\ \A r \in SignupRequests :
       /\ signup.requests[r].result = "Error" => RowsBy(r) = {}
       /\ signup.requests[r].result = "User" => Cardinality(RowsBy(r)) = 1
       /\ signup.requests[r].pc = "done" =>
            signup.requests[r].result \in {"User", "Error"}
       /\ signup.requests[r].pc # "done" => RowsBy(r) = {}

\* Two GraphQL requests with one email both passed the existence check; one
\* returned the User and the INSERT of the other failed
C30_Witness ==
  \E r1, r2 \in SignupRequests :
    /\ r1 # r2
    /\ signup.requests[r1].email = signup.requests[r2].email
    /\ signup.requests[r1].result = "User"
    /\ signup.requests[r2].api = "graphql"
    /\ signup.requests[r2].code = "DATABASE_ERROR"

====
